---------------------------- MODULE Spec2Model ----------------------------
(***************************************************************************)
(* sic2lp: conversion of a SafeInCloud export (cards with typed fields,    *)
(* labels and attachments) into LastPass Sites and Secure Notes.           *)
(*                                                                         *)
(* The model follows src/main.go.  A Go string is a sequence of            *)
(* one-character strings, so that strings.Replace, strings.EqualFold,      *)
(* strings.Join and fmt.Sprintf are computed character by character.       *)
(* The control state (pc, ci, fi, ai) follows main's loop over db.Cards,   *)
(* parse's loop over c.Fields and extractAttachments' loops over c.Files   *)
(* and c.Images.                                                           *)
(***************************************************************************)
EXTENDS Integers, Sequences, FiniteSets, TLC

VARIABLES
    db,               \* the parsed safeincloud.Database: Cards and Labels
    priorityFolders,  \* -p, split on ","
    defaultFolder,    \* -f
    importedSites,    \* global accumulator of site records
    importedNotes,    \* global accumulator of note records
    pc,               \* where the run is
    ci,               \* index into db.Cards of main's loop (1-based)
    fi,               \* index into c.Fields of parse's loop (1-based)
    importedSite,     \* parse's local flag
    pending,          \* the record importSite/importSecureNote is building
    title,            \* the title handed to extractAttachments
    ai,               \* attachments extractAttachments has dumped in this call
    dumps,            \* the files dumpfile has written, in order
    sitesCSV,         \* lastpass_sites.csv: whether created, and its rows
    notesCSV,         \* lastpass_notes.csv: whether created, and its rows
    counts,           \* main's imported, deleted, skipped
    exitCode,         \* the code of os.Exit; 0 while main has not failed
    mark              \* history: accumulator lengths when parse(c) was entered

vars == <<db, priorityFolders, defaultFolder, importedSites, importedNotes, pc,
          ci, fi, importedSite, pending, title, ai, dumps, sitesCSV,
          notesCSV, counts, exitCode, mark>>

-----------------------------------------------------------------------------
(* String literals of the source. *)

EmptyString ==
    <<>>
HttpPrefix ==
    <<"h", "t", "t", "p", ":", "/", "/">>
HttpsPrefix ==
    <<"h", "t", "t", "p", "s", ":", "/", "/">>
SecureNoteURL ==
    <<"h", "t", "t", "p", ":", "/", "/", "s", "n">>
SecureNoteTitlePrefix ==
    <<"S", "e", "c", "u", "r", "e", "N", "o", "t", "e", " ">>
FolderSeparator ==
    <<" ", "-", " ">>
LabelSeparator ==
    <<",", " ">>
LabelsHeader ==
    <<"\n", "\n", "L", "a", "b", "e", "l", "s", ":", " ">>
ColonSpace ==
    <<":", " ">>
BlankLine ==
    <<"\n", "\n">>
AttachmentsDir ==
    <<"a", "t", "t", "a", "c", "h", "m", "e", "n", "t", "s">>
PathSeparator ==
    <<"/">>
EscapedSpace ==
    <<"%", "2", "0">>
Space ==
    <<" ">>
JpgSuffix ==
    <<".", "j", "p", "g">>
Underscore ==
    <<"_">>
FavOne ==
    <<"1">>
G_CreditCards ==
    <<"C", "r", "e", "d", "i", "t", " ", "C", "a", "r", "d", "s">>
G_Banking ==
    <<"B", "a", "n", "k", "i", "n", "g">>
G_Databases ==
    <<"D", "a", "t", "a", "b", "a", "s", "e", "s">>
G_Licenses ==
    <<"L", "i", "c", "e", "n", "s", "e", "s">>
G_Insurance ==
    <<"I", "n", "s", "u", "r", "a", "n", "c", "e">>
G_Membership ==
    <<"M", "e", "m", "b", "e", "r", "s", "h", "i", "p">>
G_Passport ==
    <<"P", "a", "s", "s", "p", "o", "r", "t">>
G_Servers ==
    <<"S", "e", "r", "v", "e", "r", "s">>
G_Software ==
    <<"S", "o", "f", "t", "w", "a", "r", "e">>
NT_CreditCard ==
    <<"N", "o", "t", "e", "T", "y", "p", "e", ":", "C", "r", "e", "d", "i", "t", " ", "C", "a", "r", "d">>
NT_BankAccount ==
    <<"N", "o", "t", "e", "T", "y", "p", "e", ":", "B", "a", "n", "k", " ", "A", "c", "c", "o", "u", "n", "t">>
NT_Database ==
    <<"N", "o", "t", "e", "T", "y", "p", "e", ":", "D", "a", "t", "a", "b", "a", "s", "e">>
NT_DriversLicense ==
    <<"N", "o", "t", "e", "T", "y", "p", "e", ":", "D", "r", "i", "v", "e", "r", "'", "s", " ", "L", "i", "c", "e", "n", "s", "e">>
NT_Insurance ==
    <<"N", "o", "t", "e", "T", "y", "p", "e", ":", "I", "n", "s", "u", "r", "a", "n", "c", "e">>
NT_Membership ==
    <<"N", "o", "t", "e", "T", "y", "p", "e", ":", "M", "e", "m", "b", "e", "r", "s", "h", "i", "p">>
NT_Passport ==
    <<"N", "o", "t", "e", "T", "y", "p", "e", ":", "P", "a", "s", "s", "p", "o", "r", "t">>
NT_Server ==
    <<"N", "o", "t", "e", "T", "y", "p", "e", ":", "S", "e", "r", "v", "e", "r">>
NT_SoftwareLicense ==
    <<"N", "o", "t", "e", "T", "y", "p", "e", ":", "S", "o", "f", "t", "w", "a", "r", "e", " ", "L", "i", "c", "e", "n", "s", "e">>

-----------------------------------------------------------------------------
(* Go library functions, computed on character sequences. *)

UpperLetters ==
    <<"A", "B", "C", "D", "E", "F", "G", "H", "I", "J", "K", "L", "M",
      "N", "O", "P", "Q", "R", "S", "T", "U", "V", "W", "X", "Y", "Z">>
LowerLetters ==
    <<"a", "b", "c", "d", "e", "f", "g", "h", "i", "j", "k", "l", "m",
      "n", "o", "p", "q", "r", "s", "t", "u", "v", "w", "x", "y", "z">>

\* The case fold of one ASCII character.
FoldChar(ch) ==
    IF \E k \in 1..26 : UpperLetters[k] = ch
    THEN LowerLetters[CHOOSE k \in 1..26 : UpperLetters[k] = ch]
    ELSE ch

\* strings.EqualFold(s, t) on ASCII text.
EqualFold(s, t) ==
    /\ Len(s) = Len(t)
    /\ \A k \in 1..Len(s) : FoldChar(s[k]) = FoldChar(t[k])

\* strings.Replace(s, old, new, 1): only the leftmost occurrence.
RECURSIVE StringsReplaceFirst(_, _, _)
StringsReplaceFirst(s, old, new) ==
    IF Len(s) < Len(old) THEN s
    ELSE IF SubSeq(s, 1, Len(old)) = old
         THEN new \o SubSeq(s, Len(old) + 1, Len(s))
         ELSE <<Head(s)>> \o StringsReplaceFirst(Tail(s), old, new)

\* strings.Replace(s, old, new, -1) for a non-empty old: every
\* non-overlapping occurrence, left to right.
RECURSIVE StringsReplace(_, _, _)
StringsReplace(s, old, new) ==
    IF Len(s) < Len(old) THEN s
    ELSE IF SubSeq(s, 1, Len(old)) = old
         THEN new \o StringsReplace(SubSeq(s, Len(old) + 1, Len(s)), old, new)
         ELSE <<Head(s)>> \o StringsReplace(Tail(s), old, new)

\* strings.Join(elems, sep).
RECURSIVE StringsJoin(_, _)
StringsJoin(elems, sep) ==
    IF Len(elems) = 0 THEN EmptyString
    ELSE IF Len(elems) = 1 THEN elems[1]
    ELSE elems[1] \o sep \o StringsJoin(Tail(elems), sep)

Digits ==
    <<"0", "1", "2", "3", "4", "5", "6", "7", "8", "9">>

\* strconv.Itoa(n) for n >= 0.
RECURSIVE Itoa(_)
Itoa(n) ==
    IF n < 10 THEN <<Digits[n + 1]>>
    ELSE Itoa(n \div 10) \o <<Digits[(n % 10) + 1]>>

\* The characters url.QueryEscape leaves as they are, besides letters and
\* digits.
UnreservedMarks ==
    {"-", "_", ".", "~"}

\* The other characters of the strings at hand, each with the two upper-case
\* hexadecimal digits of its byte.
EscapedBytes ==
    <<<<"\n", <<"0", "A">>>>, <<"%", <<"2", "5">>>>, <<"'", <<"2", "7">>>>,
      <<"+", <<"2", "B">>>>, <<",", <<"2", "C">>>>, <<"/", <<"2", "F">>>>,
      <<":", <<"3", "A">>>>>>

\* url.QueryEscape of one character: a space becomes "+", an unreserved
\* character stays, any other becomes "%" and its two hexadecimal digits.
escapeChar(ch) ==
    IF ch = " " THEN <<"+">>
    ELSE IF \/ \E k \in 1..26 : UpperLetters[k] = ch \/ LowerLetters[k] = ch
            \/ \E k \in 1..10 : Digits[k] = ch
            \/ ch \in UnreservedMarks
         THEN <<ch>>
         ELSE <<"%">> \o EscapedBytes[CHOOSE k \in 1..Len(EscapedBytes) :
                                          EscapedBytes[k][1] = ch][2]

\* url.QueryEscape(s).
RECURSIVE QueryEscape(_)
QueryEscape(s) ==
    IF s = <<>> THEN <<>>
    ELSE escapeChar(Head(s)) \o QueryEscape(Tail(s))

\* fmt.Sprintf(extraFormat, name, value): "%s: %s\n\n".
extraFormat(name, value) ==
    name \o ColonSpace \o value \o BlankLine

-----------------------------------------------------------------------------
(* cardLabels and primaryCardLabel. *)

\* The names of the rows of db.Labels whose ID is id, in table order
\* (cardLabels' inner loop).
labelNames(d, id) ==
    LET HasID(row) == row.ID = id
        rows == SelectSeq(d.Labels, HasID)
    IN  [k \in 1..Len(rows) |-> rows[k].Name]

\* cardLabels' outer loop over c.LabelIDs, from position k on.
RECURSIVE cardLabelsFrom(_, _, _)
cardLabelsFrom(d, c, k) ==
    IF k > Len(c.LabelIDs) THEN <<>>
    ELSE labelNames(d, c.LabelIDs[k]) \o cardLabelsFrom(d, c, k + 1)

cardLabels(d, c) ==
    cardLabelsFrom(d, c, 1)

\* Variant of priorityMatchFrom with the loops exchanged: the labels outside,
\* the priority list inside, so that the card's label order decides.
RECURSIVE labelOrderMatchFrom(_, _, _)
labelOrderMatchFrom(pf, labels, k) ==
    IF k > Len(labels) THEN 0
    ELSE IF \E m \in 1..Len(pf) : EqualFold(pf[m], labels[k])
         THEN CHOOSE m \in 1..Len(pf) :
                  /\ EqualFold(pf[m], labels[k])
                  /\ \A n \in 1..(m - 1) : ~EqualFold(pf[n], labels[k])
         ELSE labelOrderMatchFrom(pf, labels, k + 1)

\* primaryCardLabel's loop over pf from position k on: the position of the
\* first entry that equals a label under EqualFold, or 0 when none does.
RECURSIVE priorityMatchFrom(_, _, _)
priorityMatchFrom(pf, labels, k) ==
    IF k > Len(pf) THEN 0
    ELSE IF \E l \in 1..Len(labels) : EqualFold(pf[k], labels[l])
         THEN k
         ELSE priorityMatchFrom(pf, labels, k + 1)

primaryCardLabel(d, c, pf, df) ==
    LET labels == cardLabels(d, c)
        m == priorityMatchFrom(pf, labels, 1)
    IN  IF Len(labels) = 0 THEN df
        ELSE IF m # 0 THEN pf[m]
        ELSE df \o FolderSeparator \o labels[1]

-----------------------------------------------------------------------------
(* The field scan of parse. *)

\* Variant of scanForward that scans the whole card, not c.Fields[i:].
RECURSIVE scanFromStart(_, _, _)
scanFromStart(fields, k, fieldType) ==
    LET S == {j \in 1..Len(fields) :
                 fields[j].FieldType = fieldType /\ fields[j].Value # EmptyString}
    IN  IF S = {} THEN EmptyString
        ELSE fields[CHOOSE j \in S : \A m \in S : j <= m].Value

\* The loop "for _, fi := range c.Fields[i:]" with its break: the value of
\* the first field from position k on with the type and a non-empty value,
\* or "" when there is none.
RECURSIVE scanForward(_, _, _)
scanForward(fields, k, fieldType) ==
    IF k > Len(fields) THEN EmptyString
    ELSE IF fields[k].FieldType = fieldType /\ fields[k].Value # EmptyString
         THEN fields[k].Value
         ELSE scanForward(fields, k + 1, fieldType)

\* Variant of resolveTitle without the fallback to the website.
resolveTitleNoFallback(cardTitle, url) ==
    cardTitle

\* Variant of resolveTitle that replaces only the first occurrence of each
\* scheme (strings.Replace with n = 1).
resolveTitleFirstOnly(cardTitle, url) ==
    IF cardTitle = EmptyString
    THEN StringsReplaceFirst(StringsReplaceFirst(url, HttpPrefix, EmptyString),
                             HttpsPrefix, EmptyString)
    ELSE cardTitle

\* parse lines 143-149: the card's title, or the url without its schemes.
resolveTitle(cardTitle, url) ==
    IF cardTitle = EmptyString
    THEN StringsReplace(StringsReplace(url, HttpPrefix, EmptyString),
                        HttpsPrefix, EmptyString)
    ELSE cardTitle

\* The condition of line 118.
isLogin(fld) ==
    fld.FieldType = "login" /\ fld.Value # EmptyString

-----------------------------------------------------------------------------
(* importSite and importSecureNote: the records they build. *)

\* Variant of siteExtraFrom that leaves out the login, password and website
\* fields by their type, not by their value.
RECURSIVE siteExtraByType(_, _, _, _, _)
siteExtraByType(fields, k, url, login, pass) ==
    IF k > Len(fields) THEN EmptyString
    ELSE IF fields[k].FieldType \in {"login", "password", "website"}
         THEN siteExtraByType(fields, k + 1, url, login, pass)
         ELSE extraFormat(fields[k].Name, fields[k].Value)
                  \o siteExtraByType(fields, k + 1, url, login, pass)

\* importSite's loop over c.Fields from position k on (lines 207-215).
RECURSIVE siteExtraFrom(_, _, _, _, _)
siteExtraFrom(fields, k, url, login, pass) ==
    IF k > Len(fields) THEN EmptyString
    ELSE IF \/ fields[k].Value = url
            \/ fields[k].Value = login
            \/ fields[k].Value = pass
         THEN siteExtraFrom(fields, k + 1, url, login, pass)
         ELSE extraFormat(fields[k].Name, fields[k].Value)
                  \o siteExtraFrom(fields, k + 1, url, login, pass)

\* importSecureNote's loop over c.Fields from position k on (lines 308-310).
RECURSIVE noteExtraFrom(_, _)
noteExtraFrom(fields, k) ==
    IF k > Len(fields) THEN EmptyString
    ELSE extraFormat(fields[k].Name, fields[k].Value)
             \o noteExtraFrom(fields, k + 1)

\* Lines 218-224 and 313-319: the joined labels, appended when the joined
\* string is not empty.
labelsSuffix(d, c) ==
    LET labels == StringsJoin(cardLabels(d, c), LabelSeparator)
    IN  IF Len(labels) > 0 THEN LabelsHeader \o labels ELSE EmptyString

fav(c) ==
    IF c.Star THEN FavOne ELSE EmptyString

\* The site importSite has built when it reaches extractAttachments.
siteRecord(d, c, pf, df, t, login, pass, url) ==
    [URL      |-> url,
     Type     |-> EmptyString,
     Username |-> login,
     Password |-> pass,
     Hostname |-> EmptyString,
     Extra    |-> siteExtraFrom(c.Fields, 1, url, login, pass)
                      \o c.Notes \o labelsSuffix(d, c),
     Name     |-> t,
     Grouping |-> primaryCardLabel(d, c, pf, df),
     Fav      |-> fav(c)]

\* The switch on n.Grouping (lines 272-292).
noteTypePrefix(grouping) ==
    CASE grouping = G_CreditCards -> NT_CreditCard
      [] grouping = G_Banking     -> NT_BankAccount
      [] grouping = G_Databases   -> NT_Database
      [] grouping = G_Licenses    -> NT_DriversLicense
      [] grouping = G_Insurance   -> NT_Insurance
      [] grouping = G_Membership  -> NT_Membership
      [] grouping = G_Passport    -> NT_Passport
      [] grouping = G_Servers     -> NT_Server
      [] grouping = G_Software    -> NT_SoftwareLicense
      [] OTHER                    -> EmptyString

\* Lines 252-255.
noteTitle(c) ==
    IF c.Title = EmptyString THEN SecureNoteTitlePrefix \o c.ID ELSE c.Title

\* Variant of noteRecord that fills username and password from the card's
\* first login and password fields.
noteRecordWithLogin(d, card, pf, df) ==
    LET grouping == primaryCardLabel(d, card, pf, df)
        prefix == noteTypePrefix(grouping)
    IN  [URL      |-> SecureNoteURL,
         Username |-> scanForward(card.Fields, 1, "login"),
         Password |-> scanForward(card.Fields, 1, "password"),
         Extra    |-> (IF prefix # EmptyString THEN prefix \o BlankLine
                       ELSE EmptyString)
                          \o noteExtraFrom(card.Fields, 1)
                          \o card.Notes \o labelsSuffix(d, card),
         Name     |-> noteTitle(card),
         Grouping |-> grouping,
         Fav      |-> fav(card)]

\* The note importSecureNote has built when it reaches extractAttachments.
noteRecord(d, c, pf, df) ==
    LET grouping == primaryCardLabel(d, c, pf, df)
        prefix == noteTypePrefix(grouping)
    IN  [URL      |-> SecureNoteURL,
         Username |-> EmptyString,
         Password |-> EmptyString,
         Extra    |-> (IF prefix # EmptyString THEN prefix \o BlankLine
                       ELSE EmptyString)
                          \o noteExtraFrom(c.Fields, 1)
                          \o c.Notes \o labelsSuffix(d, c),
         Name     |-> noteTitle(c),
         Grouping |-> grouping,
         Fav      |-> fav(c)]

-----------------------------------------------------------------------------
(* extractAttachments and the CSV writers. *)

\* Line 333.
fileDumpName(t, i, file) ==
    t \o Underscore \o Itoa(i) \o Underscore \o file.Name

\* Line 343.
imageDumpName(t, i) ==
    t \o Underscore \o Itoa(i) \o JpgSuffix

\* dumpfile(filename, data) returning nil: the file it has written, with the
\* name it was called with.
dumpfile(filename, data) ==
    LET cfilename == StringsReplace(QueryEscape(filename), EscapedSpace, Space)
    IN  [filename |-> filename,
         fullpath |-> AttachmentsDir \o PathSeparator \o cfilename,
         data     |-> data]

\* csvHeaders(site{}) and csvHeaders(note{}): the struct tags in field order.
siteHeaders ==
    <<"url", "type", "username", "password", "hostname", "extra", "name",
      "grouping", "fav">>
noteHeaders ==
    <<"url", "username", "password", "extra", "name", "grouping", "fav">>

\* csvSlice: the struct's field values in field order.
siteRow(s) ==
    <<s.URL, s.Type, s.Username, s.Password, s.Hostname, s.Extra, s.Name,
      s.Grouping, s.Fav>>
noteRow(n) ==
    <<n.URL, n.Username, n.Password, n.Extra, n.Name, n.Grouping, n.Fav>>

\* What writeSitesCSV leaves in lastpass_sites.csv when it returns nil.
sitesFile(sites) ==
    IF Len(sites) = 0 THEN <<>>
    ELSE <<siteHeaders>> \o [k \in 1..Len(sites) |-> siteRow(sites[k])]

\* What writeSecureNotesCSV leaves in lastpass_notes.csv when it returns nil.
notesFile(notes) ==
    IF Len(notes) = 0 THEN <<>>
    ELSE <<noteHeaders>> \o [k \in 1..Len(notes) |-> noteRow(notes[k])]

-----------------------------------------------------------------------------
(* The inputs: the database safeincloud.ParseFile returned and the flags. *)

MaxFields == 3
MaxLabels == 2
MaxPriority == 2
MaxCards == 3

Field(name, fieldType, value) ==
    [Name |-> name, FieldType |-> fieldType, Value |-> value]

Card(id, cardTitle, fields, labelIDs) ==
    [ID |-> id, Title |-> cardTitle, Deleted |-> FALSE, Template |-> FALSE,
     Star |-> FALSE, LabelIDs |-> labelIDs, Fields |-> fields,
     Notes |-> <<"n">>, Files |-> <<>>, Images |-> <<>>]

LoginU == Field(<<"L">>, "login", <<"u">>)
LoginV == Field(<<"L">>, "login", <<"v">>)
LoginEmpty == Field(<<"L">>, "login", EmptyString)
PasswordP == Field(<<"P">>, "password", <<"p">>)
PasswordQ == Field(<<"P">>, "password", <<"q">>)
PasswordEmpty == Field(<<"P">>, "password", EmptyString)
WebsiteW == Field(<<"W">>, "website", <<"w">>)
WebsiteHttp == Field(<<"W">>, "website", HttpPrefix)
WebsiteEmpty == Field(<<"W">>, "website", EmptyString)
WebsiteX == Field(<<"W">>, "website", <<"x">>)
TextU == Field(<<"T">>, "text", <<"u">>)
TextX == Field(<<"T">>, "text", <<"x">>)

FieldChoices ==
    {LoginU, LoginV, LoginEmpty, PasswordP, PasswordQ, PasswordEmpty,
     WebsiteW, WebsiteHttp, WebsiteEmpty, TextU}

CoreChoices ==
    {LoginU, LoginV, PasswordP, PasswordQ, WebsiteW, WebsiteHttp}

Titles ==
    {EmptyString, <<"t">>}

\* Website values for the title fallback: schemes at the start, inside,
\* repeated, in upper case, and nested in one another.
WebsiteValues ==
    {HttpPrefix, HttpsPrefix,
     HttpPrefix \o <<"w">>, HttpsPrefix \o <<"w">>,
     <<"H", "T", "T", "P", ":", "/", "/", "w">>,
     HttpPrefix \o <<"w">> \o HttpPrefix,
     <<"w">> \o HttpsPrefix \o <<"x">>,
     HttpPrefix \o HttpPrefix,
     <<"h">> \o HttpsPrefix \o <<"t", "t", "p", ":", "/", "/">>,
     <<"h", "t", "t", "p">> \o HttpPrefix \o <<"s", ":", "/", "/">>}

LabelTable ==
    <<[ID |-> 1, Name |-> G_CreditCards],
      [ID |-> 2, Name |-> G_Banking],
      [ID |-> 3, Name |-> <<"G", "o", "o", "g", "l", "e">>],
      [ID |-> 4, Name |-> EmptyString]>>

\* 9 is the ID of no label.
LabelIDChoices ==
    {1, 2, 3, 4, 9}

PriorityChoices ==
    {G_CreditCards,
     <<"b", "a", "n", "k", "i", "n", "g">>,
     <<"W", "o", "r", "k">>}

DefaultFolderFlag ==
    <<"I", "m", "p", "o", "r", "t", "e", "d">>

\* The flags and the database of a run.
Given(in) ==
    /\ db = in.db
    /\ priorityFolders = in.pf
    /\ defaultFolder = in.df

OneCard(card, pf) ==
    [db |-> [Cards |-> <<card>>, Labels |-> LabelTable], pf |-> pf,
     df |-> DefaultFolderFlag]

\* One card with every field list up to MaxFields.
FieldInput ==
    \E t \in Titles : \E n \in 0..MaxFields : \E fs \in [1..n -> FieldChoices] :
        Given(OneCard(Card(<<"1">>, t, fs, <<>>), <<>>))

\* One card with MaxFields + 2 fields: room for two login blocks.
LongInput ==
    \E t \in Titles : \E fs \in [1..(MaxFields + 2) -> CoreChoices] :
        Given(OneCard(Card(<<"1">>, t, fs, <<>>), <<>>))

\* One login/password/website card per website value.
TitleInput ==
    \E t \in Titles : \E w \in WebsiteValues :
        Given(OneCard(Card(<<"1">>, t,
                           <<LoginU, PasswordP, Field(<<"W">>, "website", w)>>,
                           <<>>), <<>>))

\* One card, a Site or a Secure Note, with every label list and priority list.
LabelInput ==
    \E fs \in {<<LoginU, PasswordP, WebsiteW, TextX, TextU>>,
               <<TextX, PasswordP>>} :
    \E n \in 0..MaxLabels : \E ids \in [1..n -> LabelIDChoices] :
    \E m \in 0..MaxPriority : \E pf \in [1..m -> PriorityChoices] :
        Given(OneCard(Card(<<"1">>, <<"t">>, fs, ids), pf))

File(name) ==
    [Name |-> name, Value |-> <<1>>]
Image ==
    [Value |-> <<2>>]

RunCards ==
    {[Card(EmptyString, <<"t">>, <<LoginU, PasswordP, WebsiteW>>, <<>>)
         EXCEPT !.Deleted = TRUE],
     [Card(EmptyString, <<"t">>, <<TextX>>, <<>>) EXCEPT !.Template = TRUE],
     [Card(EmptyString, <<"t">>, <<LoginU, PasswordP, WebsiteW>>, <<2>>)
         EXCEPT !.Star = TRUE, !.Files = <<File(<<"f">>)>>, !.Images = <<Image>>],
     [Card(EmptyString, EmptyString, <<TextX>>, <<>>)
         EXCEPT !.Files = <<File(<<"f">>)>>],
     [Card(EmptyString, <<"t">>, <<LoginU, LoginV, PasswordP, WebsiteW>>, <<>>)
         EXCEPT !.Images = <<Image>>],
     [Card(EmptyString, EmptyString,
           <<LoginU, WebsiteW, LoginV, PasswordP, WebsiteX>>, <<>>)
         EXCEPT !.Files = <<File(<<"a", " ", "b">>)>>, !.Images = <<Image>>]}

\* Several cards; a card's ID is its position in the export.
RunInput ==
    \E n \in 0..MaxCards : \E cs \in [1..n -> RunCards] :
        Given([db |-> [Cards |-> [k \in 1..n |-> [cs[k] EXCEPT !.ID = Itoa(k)]],
                       Labels |-> LabelTable],
               pf |-> <<>>, df |-> DefaultFolderFlag])

-----------------------------------------------------------------------------
(* The run: main, parse, importSite, importSecureNote, extractAttachments. *)

NoRecord ==
    [URL |-> EmptyString]

Init ==
    /\ \/ FieldInput
       \/ LongInput
       \/ TitleInput
       \/ LabelInput
       \/ RunInput
    /\ importedSites = <<>>
    /\ importedNotes = <<>>
    /\ pc = "main"
    /\ ci = 1
    /\ fi = 1
    /\ importedSite = FALSE
    /\ pending = NoRecord
    /\ title = EmptyString
    /\ ai = 0
    /\ dumps = <<>>
    /\ sitesCSV = [created |-> FALSE, rows |-> <<>>]
    /\ notesCSV = [created |-> FALSE, rows |-> <<>>]
    /\ counts = [imported |-> 0, deleted |-> 0, skipped |-> 0]
    /\ exitCode = 0
    /\ mark = [sites |-> 0, notes |-> 0]

flags == <<db, priorityFolders, defaultFolder>>
accumulators == <<importedSites, importedNotes>>
files == <<dumps, sitesCSV, notesCSV>>
parseLocals == <<fi, importedSite, mark>>
callLocals == <<pending, title, ai>>

\* The card of main's loop and the field of parse's loop.
c == db.Cards[ci]
f == c.Fields[fi]

\* main lines 52-56.
SkipDeleted ==
    /\ pc = "main" /\ ci <= Len(db.Cards)
    /\ c.Deleted
    /\ counts' = [counts EXCEPT !.deleted = @ + 1]
    /\ ci' = ci + 1
    /\ UNCHANGED <<flags, accumulators, files, parseLocals, callLocals, pc,
                   exitCode>>

\* main lines 57-61.
SkipTemplate ==
    /\ pc = "main" /\ ci <= Len(db.Cards)
    /\ ~c.Deleted /\ c.Template
    /\ counts' = [counts EXCEPT !.skipped = @ + 1]
    /\ ci' = ci + 1
    /\ UNCHANGED <<flags, accumulators, files, parseLocals, callLocals, pc,
                   exitCode>>

\* main line 63 into parse lines 112-116.
EnterParse ==
    /\ pc = "main" /\ ci <= Len(db.Cards)
    /\ ~c.Deleted /\ ~c.Template
    /\ pc' = "parse"
    /\ fi' = 1
    /\ importedSite' = FALSE
    /\ mark' = [sites |-> Len(importedSites), notes |-> Len(importedNotes)]
    /\ UNCHANGED <<flags, accumulators, files, callLocals, ci, counts, exitCode>>

\* parse line 118 false: the field is no login with a value.
FieldNotLogin ==
    /\ pc = "parse" /\ fi <= Len(c.Fields)
    /\ ~isLogin(f)
    /\ fi' = fi + 1
    /\ UNCHANGED <<flags, accumulators, files, callLocals, pc, ci, importedSite,
                   mark, counts, exitCode>>

\* parse lines 118-141: a login without a password or a website after it.
LoginMissingValue ==
    /\ pc = "parse" /\ fi <= Len(c.Fields)
    /\ isLogin(f)
    /\ \/ scanForward(c.Fields, fi, "password") = EmptyString
       \/ scanForward(c.Fields, fi, "website") = EmptyString
    /\ fi' = fi + 1
    /\ UNCHANGED <<flags, accumulators, files, callLocals, pc, ci, importedSite,
                   mark, counts, exitCode>>

\* Variant of LoginMissingTitle that leaves the loop over the fields (break
\* for continue).
LoginMissingTitleBreaks ==
    /\ pc = "parse" /\ fi <= Len(c.Fields)
    /\ isLogin(f)
    /\ scanForward(c.Fields, fi, "password") # EmptyString
    /\ scanForward(c.Fields, fi, "website") # EmptyString
    /\ resolveTitle(c.Title, scanForward(c.Fields, fi, "website")) = EmptyString
    /\ fi' = Len(c.Fields) + 1
    /\ UNCHANGED <<flags, accumulators, files, callLocals, pc, ci, importedSite,
                   mark, counts, exitCode>>

\* parse lines 143-153: a complete triplet whose title resolves to "".
LoginMissingTitle ==
    /\ pc = "parse" /\ fi <= Len(c.Fields)
    /\ isLogin(f)
    /\ scanForward(c.Fields, fi, "password") # EmptyString
    /\ scanForward(c.Fields, fi, "website") # EmptyString
    /\ resolveTitle(c.Title, scanForward(c.Fields, fi, "website")) = EmptyString
    /\ fi' = fi + 1
    /\ UNCHANGED <<flags, accumulators, files, callLocals, pc, ci, importedSite,
                   mark, counts, exitCode>>

\* Variant of LoginImportSite that extracts the attachments only for the
\* first site of a card.
LoginImportSiteDumpsOnce ==
    /\ pc = "parse" /\ fi <= Len(c.Fields)
    /\ isLogin(f)
    /\ LET pass == scanForward(c.Fields, fi, "password")
           url == scanForward(c.Fields, fi, "website")
           t == resolveTitle(c.Title, url)
       IN  /\ pass # EmptyString
           /\ url # EmptyString
           /\ t # EmptyString
           /\ pending' = siteRecord(db, c, priorityFolders, defaultFolder, t,
                                    f.Value, pass, url)
           /\ title' = t
    /\ ai' = IF importedSite THEN Len(c.Files) + Len(c.Images) ELSE 0
    /\ pc' = "importSite"
    /\ UNCHANGED <<flags, accumulators, files, parseLocals, ci, counts, exitCode>>

\* parse line 156 into importSite lines 193-227: the site is built and
\* extractAttachments is entered.
LoginImportSite ==
    /\ pc = "parse" /\ fi <= Len(c.Fields)
    /\ isLogin(f)
    /\ LET pass == scanForward(c.Fields, fi, "password")
           url == scanForward(c.Fields, fi, "website")
           t == resolveTitle(c.Title, url)
       IN  /\ pass # EmptyString
           /\ url # EmptyString
           /\ t # EmptyString
           /\ pending' = siteRecord(db, c, priorityFolders, defaultFolder, t,
                                    f.Value, pass, url)
           /\ title' = t
    /\ ai' = 0
    /\ pc' = "importSite"
    /\ UNCHANGED <<flags, accumulators, files, parseLocals, ci, counts, exitCode>>

inExtractAttachments ==
    pc \in {"importSite", "importSecureNote"}

\* extractAttachments lines 332-338, dumpfile returning nil.
DumpFile ==
    /\ inExtractAttachments /\ ai < Len(c.Files)
    /\ dumps' = Append(dumps, dumpfile(fileDumpName(title, ai, c.Files[ai + 1]),
                                       c.Files[ai + 1].Value))
    /\ ai' = ai + 1
    /\ UNCHANGED <<flags, accumulators, parseLocals, pending, title, pc, ci,
                   sitesCSV, notesCSV, counts, exitCode>>

\* extractAttachments lines 339-348, dumpfile returning nil.
DumpImage ==
    /\ inExtractAttachments
    /\ ai >= Len(c.Files) /\ ai < Len(c.Files) + Len(c.Images)
    /\ dumps' = Append(dumps, dumpfile(imageDumpName(title, ai - Len(c.Files)),
                                       c.Images[ai - Len(c.Files) + 1].Value))
    /\ ai' = ai + 1
    /\ UNCHANGED <<flags, accumulators, parseLocals, pending, title, pc, ci,
                   sitesCSV, notesCSV, counts, exitCode>>

\* Variant of DumpFails in which main logs the error, counts the card as
\* skipped and goes on with the next card.
DumpFailsSkipsCard ==
    /\ inExtractAttachments
    /\ ai < Len(c.Files) + Len(c.Images)
    /\ counts' = [counts EXCEPT !.skipped = @ + 1]
    /\ ci' = ci + 1
    /\ pc' = "main"
    /\ UNCHANGED <<flags, accumulators, files, parseLocals, callLocals,
                   exitCode>>

\* dumpfile returns an error (os.MkdirAll or ioutil.WriteFile failed): the
\* error goes up through parse to main lines 63-66.
DumpFails ==
    /\ inExtractAttachments
    /\ ai < Len(c.Files) + Len(c.Images)
    /\ pc' = "exit"
    /\ exitCode' = 11
    /\ UNCHANGED <<flags, accumulators, files, parseLocals, callLocals, ci,
                   counts>>

\* Variant of SiteAppend that puts the new site in front of the accumulator.
SitePrepend ==
    /\ pc = "importSite"
    /\ ai = Len(c.Files) + Len(c.Images)
    /\ importedSites' = <<pending>> \o importedSites
    /\ importedSite' = TRUE
    /\ fi' = fi + 1
    /\ pc' = "parse"
    /\ UNCHANGED <<flags, importedNotes, files, callLocals, ci, mark, counts,
                   exitCode>>

\* importSite lines 231-232 and parse line 159.
SiteAppend ==
    /\ pc = "importSite"
    /\ ai = Len(c.Files) + Len(c.Images)
    /\ importedSites' = Append(importedSites, pending)
    /\ importedSite' = TRUE
    /\ fi' = fi + 1
    /\ pc' = "parse"
    /\ UNCHANGED <<flags, importedNotes, files, callLocals, ci, mark, counts,
                   exitCode>>

\* parse lines 162-165.
ParseReturnsSite ==
    /\ pc = "parse" /\ fi > Len(c.Fields)
    /\ importedSite
    /\ pc' = "parsed"
    /\ UNCHANGED <<flags, accumulators, files, parseLocals, callLocals, ci,
                   counts, exitCode>>

\* Variant of ParseImportsNote that does not test importedSite.
ParseImportsNoteAlways ==
    /\ pc = "parse" /\ fi > Len(c.Fields)
    /\ pending' = noteRecord(db, c, priorityFolders, defaultFolder)
    /\ title' = noteTitle(c)
    /\ ai' = 0
    /\ pc' = "importSecureNote"
    /\ UNCHANGED <<flags, accumulators, files, parseLocals, ci, counts, exitCode>>

\* parse line 169 into importSecureNote lines 252-322.
ParseImportsNote ==
    /\ pc = "parse" /\ fi > Len(c.Fields)
    /\ ~importedSite
    /\ pending' = noteRecord(db, c, priorityFolders, defaultFolder)
    /\ title' = noteTitle(c)
    /\ ai' = 0
    /\ pc' = "importSecureNote"
    /\ UNCHANGED <<flags, accumulators, files, parseLocals, ci, counts, exitCode>>

\* importSecureNote lines 326-327 and parse line 172.
NoteAppend ==
    /\ pc = "importSecureNote"
    /\ ai = Len(c.Files) + Len(c.Images)
    /\ importedNotes' = Append(importedNotes, pending)
    /\ pc' = "parsed"
    /\ UNCHANGED <<flags, importedSites, files, parseLocals, callLocals, ci,
                   counts, exitCode>>

\* main line 67 and the loop's step.
CardImported ==
    /\ pc = "parsed"
    /\ counts' = [counts EXCEPT !.imported = @ + 1]
    /\ ci' = ci + 1
    /\ pc' = "main"
    /\ UNCHANGED <<flags, accumulators, files, parseLocals, callLocals, exitCode>>

\* main line 71, writeSitesCSV returning nil.
WriteSites ==
    /\ pc = "main" /\ ci > Len(db.Cards)
    /\ sitesCSV' = [created |-> TRUE, rows |-> sitesFile(importedSites)]
    /\ pc' = "writeNotes"
    /\ UNCHANGED <<flags, accumulators, parseLocals, callLocals, ci, dumps,
                   notesCSV, counts, exitCode>>

\* main lines 71-74, writeSitesCSV returning an error: os.Create failed, or
\* a row could not be written and the file holds what was written before.
WriteSitesFails ==
    /\ pc = "main" /\ ci > Len(db.Cards)
    /\ \/ UNCHANGED sitesCSV
       \/ /\ Len(importedSites) > 0
          /\ \E n \in 0..Len(importedSites) :
                sitesCSV' = [created |-> TRUE,
                             rows |-> SubSeq(sitesFile(importedSites), 1, n)]
    /\ pc' = "exit"
    /\ exitCode' = 12
    /\ UNCHANGED <<flags, accumulators, parseLocals, callLocals, ci, dumps,
                   notesCSV, counts>>

\* main line 75, writeSecureNotesCSV returning nil, and main returns.
WriteNotes ==
    /\ pc = "writeNotes"
    /\ notesCSV' = [created |-> TRUE, rows |-> notesFile(importedNotes)]
    /\ pc' = "done"
    /\ UNCHANGED <<flags, accumulators, parseLocals, callLocals, ci, dumps,
                   sitesCSV, counts, exitCode>>

\* main lines 75-78, writeSecureNotesCSV returning an error.
WriteNotesFails ==
    /\ pc = "writeNotes"
    /\ \/ UNCHANGED notesCSV
       \/ /\ Len(importedNotes) > 0
          /\ \E n \in 0..Len(importedNotes) :
                notesCSV' = [created |-> TRUE,
                             rows |-> SubSeq(notesFile(importedNotes), 1, n)]
    /\ pc' = "exit"
    /\ exitCode' = 13
    /\ UNCHANGED <<flags, accumulators, parseLocals, callLocals, ci, dumps,
                   sitesCSV, counts>>

Next ==
    \/ SkipDeleted
    \/ SkipTemplate
    \/ EnterParse
    \/ FieldNotLogin
    \/ LoginMissingValue
    \/ LoginMissingTitle
    \/ LoginImportSite
    \/ DumpFile
    \/ DumpImage
    \/ DumpFails
    \/ SiteAppend
    \/ ParseReturnsSite
    \/ ParseImportsNote
    \/ NoteAppend
    \/ CardImported
    \/ WriteSites
    \/ WriteSitesFails
    \/ WriteNotes
    \/ WriteNotesFails

Spec ==
    Init /\ [][Next]_vars

-----------------------------------------------------------------------------
(* Vocabulary of the properties.  While a card is inside parse, or parse  *)
(* has just returned nil for it (pc = "parsed"), the records appended for *)
(* the card are those past the lengths recorded in mark.                  *)

inCard ==
    pc \in {"parse", "importSite", "importSecureNote", "parsed"}

cardSites ==
    SubSeq(importedSites, mark.sites + 1, Len(importedSites))

cardNotes ==
    SubSeq(importedNotes, mark.notes + 1, Len(importedNotes))

\* The position of the first field at or after i with the type and a
\* non-empty value; 0 when there is none.
FirstAt(fields, i, fieldType) ==
    LET S == {j \in i..Len(fields) :
                 fields[j].FieldType = fieldType /\ fields[j].Value # <<>>}
    IN  IF S = {} THEN 0 ELSE CHOOSE j \in S : \A k \in S : j <= k

\* Position i holds a login with a value, and a password and a website
\* with values are found from i on.
Qualifies(fields, i) ==
    /\ fields[i].FieldType = "login" /\ fields[i].Value # <<>>
    /\ FirstAt(fields, i, "password") # 0
    /\ FirstAt(fields, i, "website") # 0

QualifyingLogins(fields) ==
    {i \in 1..Len(fields) : Qualifies(fields, i)}

\* The website value with every "http://" and then every "https://" removed.
Unschemed(url) ==
    StringsReplace(StringsReplace(url, HttpPrefix, <<>>), HttpsPrefix, <<>>)

\* The qualifying login at i gets a name: the card's title, or what is left
\* of its website.
Named(card, i) ==
    \/ card.Title # <<>>
    \/ Unschemed(card.Fields[FirstAt(card.Fields, i, "website")].Value) # <<>>

NamedLogins(card) ==
    {i \in QualifyingLogins(card.Fields) : Named(card, i)}

-----------------------------------------------------------------------------
(* C1 *)

\* C1: a card that parse has handled without an attachment error has added
\* either one or more Sites and no Secure Note, or exactly one Secure Note
\* and no Site; while it is being handled it never holds both.
C1_SitesOrOneNote ==
    /\ inCard => ~(Len(cardSites) > 0 /\ Len(cardNotes) > 0)
    /\ pc = "parsed" =>
          \/ Len(cardSites) >= 1 /\ Len(cardNotes) = 0
          \/ Len(cardSites) = 0 /\ Len(cardNotes) = 1

\* A card that added two Sites, after an earlier card added a Secure Note.
C1_Witness ==
    /\ pc = "parsed"
    /\ Len(cardSites) = 2
    /\ Len(importedNotes) >= 1

-----------------------------------------------------------------------------
(* C2 *)

\* C2 as stated: a card with N >= 1 qualifying logins has added exactly N
\* Sites and no Secure Note.
C2_Original ==
    pc = "parsed" =>
        LET n == Cardinality(QualifyingLogins(c.Fields))
        IN  n >= 1 => Len(cardSites) = n /\ Len(cardNotes) = 0

\* C2 amended: a card handled without an attachment error, with N >= 1
\* qualifying logins whose resolved title (the card's title, or the scanned
\* website without its schemes) is not empty, has added exactly N Sites
\* and no Secure Note.
C2_NamedLoginsCount ==
    pc = "parsed" =>
        LET n == Cardinality(NamedLogins(c))
        IN  n >= 1 => Len(cardSites) = n /\ Len(cardNotes) = 0

\* An untitled card with two qualifying logins, one of which gets a name
\* from its website: it added one Site.
C2_Witness ==
    /\ pc = "parsed"
    /\ Cardinality(QualifyingLogins(c.Fields)) = 2
    /\ Cardinality(NamedLogins(c)) = 1
    /\ Len(cardSites) = 1
    /\ Len(cardNotes) = 0

-----------------------------------------------------------------------------
(* C3 *)

\* The site is the one for the login at position i.
SiteOfLogin(s, fields, i) ==
    /\ Qualifies(fields, i)
    /\ s.Username = fields[i].Value
    /\ s.Password = fields[FirstAt(fields, i, "password")].Value
    /\ s.URL = fields[FirstAt(fields, i, "website")].Value

\* C3: the Sites of a card are those of logins at increasing positions,
\* each with its login's value as username and the first password and the
\* first website with a value at or after the login's position.
C3_ForwardTriplets ==
    inCard =>
        \E at \in [1..Len(cardSites) -> 1..Len(c.Fields)] :
            /\ \A k \in 1..Len(cardSites) :
                  SiteOfLogin(cardSites[k], c.Fields, at[k])
            /\ \A k \in 1..(Len(cardSites) - 1) : at[k] < at[k + 1]

\* Two Sites of one card whose passwords differ: the second login took the
\* password after it, not the card's first one.
C3_Witness ==
    /\ pc = "parsed"
    /\ Len(cardSites) = 2
    /\ cardSites[1].Username # cardSites[2].Username
    /\ cardSites[1].Password # cardSites[2].Password

-----------------------------------------------------------------------------
(* C4 *)

HasField(card, fieldType) ==
    \E j \in 1..Len(card.Fields) :
        card.Fields[j].FieldType = fieldType /\ card.Fields[j].Value # <<>>

\* C4: a titled card with a login, a password and a website field, each with
\* a value, in any order, has added at least one Site and no Secure Note.
C4_AllFieldsPresentIsSite ==
    (/\ pc = "parsed"
     /\ c.Title # <<>>
     /\ HasField(c, "login")
     /\ HasField(c, "password")
     /\ HasField(c, "website"))
    => Len(cardSites) >= 1 /\ Len(cardNotes) = 0

-----------------------------------------------------------------------------
(* C5 *)

\* C5: every record of importedSites has a URL, a username, a password and
\* a name; and a login skipped for an incomplete triplet or an empty title
\* does not end the scan: every later login with a complete triplet and a
\* title has its Site.
C5_SitesComplete ==
    /\ \A k \in 1..Len(importedSites) :
          /\ importedSites[k].URL # <<>>
          /\ importedSites[k].Username # <<>>
          /\ importedSites[k].Password # <<>>
          /\ importedSites[k].Name # <<>>
    /\ pc = "parsed" =>
          \A i \in 1..Len(c.Fields) : \A j \in (i + 1)..Len(c.Fields) :
              (/\ c.Fields[i].FieldType = "login"
               /\ c.Fields[i].Value # <<>>
               /\ i \notin NamedLogins(c)
               /\ j \in NamedLogins(c))
              => \E k \in 1..Len(cardSites) :
                     SiteOfLogin(cardSites[k], c.Fields, j)

\* An untitled card whose first login was skipped, its website leaving no
\* title, and whose second login has its Site.
C5_Witness ==
    /\ pc = "parsed"
    /\ Len(cardSites) = 1
    /\ \E i \in QualifyingLogins(c.Fields) : \E j \in NamedLogins(c) :
          /\ i < j
          /\ i \notin NamedLogins(c)
          /\ SiteOfLogin(cardSites[1], c.Fields, j)

-----------------------------------------------------------------------------
(* C6 *)

\* C6: a card handled without an attachment error and with no qualifying
\* triplet has added exactly one Secure Note and no Site; and every record
\* of importedNotes has the url "http://sn" and no username and password.
C6_NotesBlank ==
    /\ \A k \in 1..Len(importedNotes) :
          /\ importedNotes[k].URL =
                 <<"h", "t", "t", "p", ":", "/", "/", "s", "n">>
          /\ importedNotes[k].Username = <<>>
          /\ importedNotes[k].Password = <<>>
    /\ pc = "parsed" =>
          (QualifyingLogins(c.Fields) = {}
           => Len(cardNotes) = 1 /\ Len(cardSites) = 0)

\* A Secure Note of a card that has a login, a password and a website with
\* values, the password before the login.
C6_Witness ==
    /\ pc = "parsed"
    /\ Len(cardNotes) = 1
    /\ QualifyingLogins(c.Fields) = {}
    /\ HasField(c, "login") /\ HasField(c, "password") /\ HasField(c, "website")

-----------------------------------------------------------------------------
(* C7 *)

Lower(str) ==
    [k \in 1..Len(str) |-> FoldChar(str[k])]

\* The folder of a card with the resolved labels: the default folder for no
\* label; else the first priority entry, in priority order, that equals one
\* of the labels ignoring case; else default + " - " + the first label.
ExpectedFolder(labels, pf, df) ==
    LET M == {k \in 1..Len(pf) :
                 \E l \in 1..Len(labels) : Lower(pf[k]) = Lower(labels[l])}
    IN  IF labels = <<>> THEN df
        ELSE IF M # {} THEN pf[CHOOSE k \in M : \A m \in M : k <= m]
        ELSE df \o <<" ", "-", " ">> \o labels[1]

\* C7: the grouping of every Site and Secure Note of a card is the folder
\* of the card's resolved labels.
C7_GroupingIsFolder ==
    pc = "parsed" =>
        LET folder == ExpectedFolder(cardLabels(db, c), priorityFolders,
                                     defaultFolder)
        IN  /\ \A k \in 1..Len(cardSites) : cardSites[k].Grouping = folder
            /\ \A k \in 1..Len(cardNotes) : cardNotes[k].Grouping = folder

\* Labels Banking, Credit Cards and priorities "Credit Cards", "banking":
\* the first priority entry wins over the first label.
C7_Witness ==
    /\ pc = "parsed"
    /\ cardLabels(db, c) = <<G_Banking, G_CreditCards>>
    /\ Len(priorityFolders) = 2
    /\ priorityFolders[1] = G_CreditCards
    /\ Lower(priorityFolders[2]) = Lower(G_Banking)
    /\ Len(cardSites) = 1
    /\ cardSites[1].Grouping = G_CreditCards

-----------------------------------------------------------------------------
(* C8 *)

\* The recognized labels and their NoteTypes (doc.go 100-110).
NoteTypes ==
    <<<<G_CreditCards, NT_CreditCard>>, <<G_Banking, NT_BankAccount>>,
      <<G_Databases, NT_Database>>, <<G_Licenses, NT_DriversLicense>>,
      <<G_Insurance, NT_Insurance>>, <<G_Membership, NT_Membership>>,
      <<G_Passport, NT_Passport>>, <<G_Servers, NT_Server>>,
      <<G_Software, NT_SoftwareLicense>>>>

StartsWith(str, prefix) ==
    Len(str) >= Len(prefix) /\ SubSeq(str, 1, Len(prefix)) = prefix

\* The labels of the card that are recognized, as positions in NoteTypes.
RecognizedOf(labels) ==
    {k \in 1..Len(NoteTypes) :
        \E l \in 1..Len(labels) : labels[l] = NoteTypes[k][1]}

\* C8: the Secure Note of a card that carries a recognized label starts
\* with the NoteType of a recognized label it carries and a blank line.
C8_LabelGivesNoteType ==
    (pc = "parsed" /\ Len(cardNotes) = 1
        /\ RecognizedOf(cardLabels(db, c)) # {})
    => \E k \in RecognizedOf(cardLabels(db, c)) :
           StartsWith(cardNotes[1].Extra, NoteTypes[k][2] \o <<"\n", "\n">>)

-----------------------------------------------------------------------------
(* C9 *)

RECURSIVE Entries(_)
Entries(fields) ==
    IF fields = <<>> THEN <<>>
    ELSE Head(fields).Name \o <<":", " ">> \o Head(fields).Value
             \o <<"\n", "\n">> \o Entries(Tail(fields))

\* The fields of the card whose value is none of the site's url, username
\* and password, in the card's order.
OtherFields(card, s) ==
    LET Other(fld) ==
            fld.Value # s.URL /\ fld.Value # s.Username /\ fld.Value # s.Password
    IN  SelectSeq(card.Fields, Other)

LabelsLine(labels) ==
    <<"\n", "\n", "L", "a", "b", "e", "l", "s", ":", " ">>
        \o StringsJoin(labels, <<",", " ">>)

\* C9 as stated: the extra block of a Site is the entries of the other
\* fields, the card's notes and, when the card has resolved labels, the
\* Labels line.
C9_Original ==
    pc = "parsed" =>
        \A k \in 1..Len(cardSites) :
            cardSites[k].Extra =
                Entries(OtherFields(c, cardSites[k])) \o c.Notes
                    \o (IF cardLabels(db, c) # <<>>
                        THEN LabelsLine(cardLabels(db, c)) ELSE <<>>)

\* C9 amended: the Labels line is there when the label names joined with
\* ", " make a non-empty string (a card whose only label has the name ""
\* gets none).
C9_ExtraOfSite ==
    pc = "parsed" =>
        \A k \in 1..Len(cardSites) :
            cardSites[k].Extra =
                Entries(OtherFields(c, cardSites[k])) \o c.Notes
                    \o (IF StringsJoin(cardLabels(db, c), <<",", " ">>) # <<>>
                        THEN LabelsLine(cardLabels(db, c)) ELSE <<>>)

\* A Site of a labelled card with a text field that has the username's
\* value, left out, and a text field with another value, kept.
C9_Witness ==
    /\ pc = "parsed"
    /\ Len(cardSites) = 1
    /\ StringsJoin(cardLabels(db, c), <<",", " ">>) # <<>>
    /\ \E j \in 1..Len(c.Fields) :
          c.Fields[j].FieldType = "text"
              /\ c.Fields[j].Value = cardSites[1].Username
    /\ Len(OtherFields(c, cardSites[1])) = 1

-----------------------------------------------------------------------------
(* C10 *)

\* The website value with the first "http://" and then the first
\* "https://" removed.
UnschemedOnce(url) ==
    StringsReplaceFirst(StringsReplaceFirst(url, HttpPrefix, <<>>),
                        HttpsPrefix, <<>>)

\* C10 as stated: a Site's name is the card's title or, for an untitled
\* card, its url with the first occurrence of each scheme removed; a
\* qualifying login of an untitled card for which that is empty has no Site.
C10_Original ==
    pc = "parsed" =>
        /\ \A k \in 1..Len(cardSites) :
              cardSites[k].Name =
                  IF c.Title # <<>> THEN c.Title
                  ELSE UnschemedOnce(cardSites[k].URL)
        /\ \A i \in QualifyingLogins(c.Fields) :
              (/\ c.Title = <<>>
               /\ UnschemedOnce(
                      c.Fields[FirstAt(c.Fields, i, "website")].Value) = <<>>)
              => ~\E k \in 1..Len(cardSites) :
                      SiteOfLogin(cardSites[k], c.Fields, i)

\* C10 amended: for an untitled card the name is the url with every
\* occurrence of "http://" and then every occurrence of "https://" removed,
\* case-sensitively; a qualifying login for which that is empty has no Site.
C10_SiteNames ==
    pc = "parsed" =>
        /\ \A k \in 1..Len(cardSites) :
              cardSites[k].Name =
                  IF c.Title # <<>> THEN c.Title
                  ELSE Unschemed(cardSites[k].URL)
        /\ \A i \in QualifyingLogins(c.Fields) :
              (/\ c.Title = <<>>
               /\ Unschemed(
                      c.Fields[FirstAt(c.Fields, i, "website")].Value) = <<>>)
              => ~\E k \in 1..Len(cardSites) :
                      SiteOfLogin(cardSites[k], c.Fields, i)

\* A Site of an untitled card whose url holds a scheme twice: its name has
\* lost both.
C10_Witness ==
    /\ pc = "parsed"
    /\ c.Title = <<>>
    /\ Len(cardSites) = 1
    /\ cardSites[1].Name # UnschemedOnce(cardSites[1].URL)
    /\ cardSites[1].Name = <<"w">>

-----------------------------------------------------------------------------
(* C11 *)

\* extractAttachments has an attachment of the card left to write.
writePending ==
    inExtractAttachments /\ ai < Len(c.Files) + Len(c.Images)

\* A step from a state in which an attachment is to be written: either the
\* attachment is written, or the run ends with code 11 and the record being
\* built reaches neither accumulator, main's loop stays on the card and
\* no CSV file is touched.
C11_WriteStep ==
    writePending =>
        \/ Len(dumps') = Len(dumps) + 1 /\ pc' = pc /\ exitCode' = 0
        \/ /\ pc' = "exit"
           /\ exitCode' = 11
           /\ UNCHANGED <<importedSites, importedNotes, ci, counts, dumps,
                          sitesCSV, notesCSV>>

\* C11: when the write of an attachment fails the run ends at once with
\* exit code 11: the record being built is appended to neither
\* accumulator, nothing happens after the exit (no later card, no CSV),
\* neither CSV file has been created, and the card is never passed over
\* with the run going on.
C11_AttachmentFailureAborts ==
    /\ [][C11_WriteStep /\ exitCode # 11]_vars
    /\ [](exitCode = 11 =>
             /\ pc = "exit"
             /\ ci <= Len(db.Cards)
             /\ ~sitesCSV.created /\ ~notesCSV.created
             /\ counts.imported + counts.deleted + counts.skipped = ci - 1)

\* The run ended with code 11 in the second emission of a card that had
\* already added one Site and written an attachment, with a later card
\* left in the export.
C11_Witness ==
    /\ exitCode = 11
    /\ Len(cardSites) = 1
    /\ Len(dumps) >= 1
    /\ pending \notin {importedSites[k] : k \in 1..Len(importedSites)}
    /\ ci < Len(db.Cards)

-----------------------------------------------------------------------------
(* C12 *)

IsPrefix(s, t) ==
    Len(s) <= Len(t) /\ SubSeq(t, 1, Len(s)) = s

Processed(card) ==
    ~card.Deleted /\ ~card.Template

\* The numbers of Sites and of Secure Notes a card contributes.
SiteCount(card) ==
    IF Processed(card) THEN Cardinality(NamedLogins(card)) ELSE 0

NoteCount(card) ==
    IF Processed(card) /\ NamedLogins(card) = {} THEN 1 ELSE 0

\* The numbers of Sites of the first 0, 1, ..., k cards: the entry at k is
\* the number of Sites of the cards before position k.
RECURSIVE SitesBefore(_, _)
SitesBefore(cards, k) ==
    IF k = 0 THEN <<0>>
    ELSE LET before == SitesBefore(cards, k - 1)
         IN  Append(before, before[k] + SiteCount(cards[k]))

\* The same for the Secure Notes.
RECURSIVE NotesBefore(_, _)
NotesBefore(cards, k) ==
    IF k = 0 THEN <<0>>
    ELSE LET before == NotesBefore(cards, k - 1)
         IN  Append(before, before[k] + NoteCount(cards[k]))

\* The site is one of the card: the triplet of one of its named logins,
\* its name and its star.
SiteOfCard(s, card) ==
    /\ \E i \in 1..Len(card.Fields) :
          /\ card.Fields[i].Value = s.Username
          /\ SiteOfLogin(s, card.Fields, i)
          /\ Named(card, i)
    /\ s.Name = IF card.Title # <<>> THEN card.Title ELSE Unschemed(s.URL)
    /\ s.Fav = IF card.Star THEN <<"1">> ELSE <<>>

\* The note is the one of the card: its name (the title, or "SecureNote "
\* and the card's ID) and its star.
NoteOfCard(n, card) ==
    /\ n.Name = IF card.Title # <<>> THEN card.Title
                ELSE <<"S", "e", "c", "u", "r", "e", "N", "o", "t", "e", " ">>
                         \o card.ID
    /\ n.Fav = IF card.Star THEN <<"1">> ELSE <<>>

\* The cards main's loop is through with: all before ci, and the card at ci
\* once parse has returned nil for it.
cardsDone ==
    IF pc = "parsed" THEN ci ELSE ci - 1

\* The accumulators hold, card after card in the order of the export, the
\* records of the cards that are done, and after them only records of the
\* card in hand.
C12_InCardOrder ==
    LET sites == SitesBefore(db.Cards, cardsDone)
        notes == NotesBefore(db.Cards, cardsDone)
    IN  /\ Len(importedSites) >= sites[cardsDone + 1]
        /\ Len(importedNotes) >= notes[cardsDone + 1]
        /\ \A k \in 1..cardsDone :
              /\ \A j \in (sites[k] + 1)..sites[k + 1] :
                    SiteOfCard(importedSites[j], db.Cards[k])
              /\ \A j \in (notes[k] + 1)..notes[k + 1] :
                    NoteOfCard(importedNotes[j], db.Cards[k])
        /\ IF inCard \/ exitCode = 11
           THEN /\ \A j \in (sites[cardsDone + 1] + 1)..Len(importedSites) :
                      SiteOfCard(importedSites[j], c)
                /\ \A j \in (notes[cardsDone + 1] + 1)..Len(importedNotes) :
                      NoteOfCard(importedNotes[j], c)
           ELSE /\ Len(importedSites) = sites[cardsDone + 1]
                /\ Len(importedNotes) = notes[cardsDone + 1]

\* A step keeps every record of both accumulators at its position; a step
\* that touches lastpass_sites.csv or ends with code 12 starts after the
\* last card, before the notes writer; a step that touches
\* lastpass_notes.csv or ends with code 13 starts after the last card and
\* after the sites writer returned nil.
C12_Step ==
    /\ IsPrefix(importedSites, importedSites')
    /\ IsPrefix(importedNotes, importedNotes')
    /\ (sitesCSV' # sitesCSV \/ exitCode' = 12) =>
          /\ ci > Len(db.Cards)
          /\ counts.imported + counts.deleted + counts.skipped = Len(db.Cards)
          /\ ~notesCSV.created
          /\ UNCHANGED <<importedSites, importedNotes>>
    /\ (notesCSV' # notesCSV \/ exitCode' = 13) =>
          /\ ci > Len(db.Cards)
          /\ counts.imported + counts.deleted + counts.skipped = Len(db.Cards)
          /\ sitesCSV.created
          /\ UNCHANGED <<importedSites, importedNotes, sitesCSV>>

\* C12: the accumulators only grow at their end, their records stand in
\* the order of their cards in db.Cards (deleted and template cards give
\* none), and the CSV writers run only after the last card, the sites
\* writer before the notes writer.
C12_AppendOnlyInOrder ==
    /\ [][C12_Step]_vars
    /\ []C12_InCardOrder

\* A finished run over a deleted card, a starred card with one Site and a
\* card with two Sites: three Sites, the starred one first or last, and
\* both files written.
C12_Witness ==
    /\ pc = "done"
    /\ counts.deleted = 1
    /\ Len(importedSites) = 3
    /\ importedSites[1].Fav # <<"1">>
    /\ importedSites[3].Fav = <<"1">>
    /\ sitesCSV.created /\ notesCSV.created
    /\ Len(sitesCSV.rows) = 4

-----------------------------------------------------------------------------
(* C13 *)

AttachmentCount(card) ==
    Len(card.Files) + Len(card.Images)

\* The number of dump operations of the cards before position k.
RECURSIVE DumpsBefore(_, _)
DumpsBefore(cards, k) ==
    IF k <= 1 THEN 0
    ELSE DumpsBefore(cards, k - 1)
             + (SiteCount(cards[k - 1]) + NoteCount(cards[k - 1]))
                   * AttachmentCount(cards[k - 1])

\* The records the card in hand has added, in the order of their emission,
\* and the dump operations made for the card.
cardRecords ==
    [k \in 1..(Len(cardSites) + Len(cardNotes)) |->
        IF k <= Len(cardSites) THEN cardSites[k]
        ELSE cardNotes[k - Len(cardSites)]]

cardDumps ==
    SubSeq(dumps, DumpsBefore(db.Cards, ci) + 1, Len(dumps))

\* The name of the dump of the card's j-th attachment, the files first, for
\* a record with the given title: "<title>_<index>_<original-filename>" or
\* "<title>_<index>.jpg", the index counted from 0 among the files and
\* again from 0 among the images.
DumpName(recordTitle, card, j) ==
    IF j <= Len(card.Files)
    THEN recordTitle \o <<"_">> \o Itoa(j - 1) \o <<"_">>
             \o card.Files[j].Name
    ELSE recordTitle \o <<"_">> \o Itoa(j - Len(card.Files) - 1)
             \o <<".", "j", "p", "g">>

\* The dump operations of the card in hand: one block of F + G for each
\* record it has added, named from that record's title, and the dumps made
\* so far for the record being built; between cards, the blocks of all
\* earlier cards and nothing else.
C13_BlockPerRecord ==
    IF inCard \/ exitCode = 11
    THEN LET A == AttachmentCount(c)
             R == Len(cardRecords)
             D == cardDumps
             building == IF inExtractAttachments \/ exitCode = 11
                         THEN ai ELSE 0
         IN  /\ Len(D) = R * A + building
             /\ \A r \in 1..R : \A j \in 1..A :
                   D[(r - 1) * A + j].filename =
                       DumpName(cardRecords[r].Name, c, j)
             /\ \A j \in 1..building :
                   D[R * A + j].filename = DumpName(pending.Name, c, j)
    ELSE Len(dumps) = DumpsBefore(db.Cards, ci)

\* A step that appends a record starts with all F + G attachments dumped
\* for it and dumps nothing itself.
C13_Step ==
    (importedSites' # importedSites \/ importedNotes' # importedNotes) =>
        /\ ai = AttachmentCount(c)
        /\ Len(cardDumps) = (Len(cardRecords) + 1) * AttachmentCount(c)
        /\ UNCHANGED dumps

\* The files the dump operations of the card in hand have left on disk.
cardFiles ==
    {cardDumps[k].fullpath : k \in 1..Len(cardDumps)}

\* A card that added several Sites has left every attachment once for each
\* Site, all under different names.
C13_FilePerSite ==
    (pc = "parsed" /\ Len(cardSites) >= 2) =>
        Cardinality(cardFiles) = Len(cardSites) * AttachmentCount(c)

\* A card has left every attachment once for each different title among its
\* records: Sites with the same title dump to the same names, and the later
\* dump replaces the file of the earlier.
C13_FilePerTitle ==
    pc = "parsed" =>
        Cardinality(cardFiles) =
            Cardinality({cardRecords[r].Name : r \in 1..Len(cardRecords)})
                * AttachmentCount(c)

=============================================================================
